---- MODULE Spec2Model ----
(***************************************************************************)
(* prplOS patch monitoring: the advanced dashboard                         *)
(* (src/prplos-monitoring-dashboard.py) and the simplified monitor         *)
(* (src/prplos-monitoring-simple.py) as one state machine.  `variant`      *)
(* says which of the two programs the process is.                          *)
(*                                                                         *)
(* Modelling conventions                                                   *)
(*  - floats are natural numbers; a mean is the pair (sum, count) and two  *)
(*    means are compared by cross-multiplication;                          *)
(*  - a dict is a sequence of [k, v] entries in insertion order;           *)
(*  - a KeyboardInterrupt is raised in the main thread between two steps   *)
(*    and propagates as Python propagates it (the GUI event loop is taken  *)
(*    to let it through to main's handler);                                *)
(*  - std_dev, the plots and benchmark_summary.csv are left out.           *)
(***************************************************************************)
EXTENDS Integers, Sequences, FiniteSets, TLC

VARIABLES
    variant,         \* "advanced" | "simple": which program runs
    export_only,     \* args.export_only
    mpc,             \* position of the main thread
    interrupts,      \* KeyboardInterrupts delivered so far
    fig,             \* hasattr(self, 'fig')
    thread_obj,      \* self.monitor_thread_obj: "absent" | "created" | "started"
    tpc,             \* position of the monitor thread
    monitoring,      \* self.monitoring
    data_queue,      \* self.data_queue
    system_metrics,  \* self.system_metrics (advanced)
    patch_metrics,   \* self.patch_metrics (advanced)
    summary,         \* what update_summary last showed
    cur,             \* update_plots: the message in hand and the loop index
    data,            \* self.data (simple)
    files,           \* the timing logs of the results directory
    host,            \* what the OS utilities answered on the latest collection
    now,             \* the wall clock, in seconds
    disk,            \* report files of the results directory: name -> content
    report,          \* the report the last writer call built
    hist             \* history: what was dequeued, put, written (not program state)

vars == <<variant, export_only, mpc, interrupts, fig, thread_obj, tpc, monitoring,
          data_queue, system_metrics, patch_metrics, summary, cur, data, files,
          host, now, disk, report, hist>>

(***************************************************************************)
(* Bounds and program constants                                            *)
(***************************************************************************)
window_capacity == 100

MaxTicks == 2

WindowTicks == 102

MaxClock == 2

MaxQueue == 2

MaxSamples == 4

MaxRuns == 3

Methods == <<"quilt", "git", "script">>

MethodSet == {Methods[i] : i \in 1..Len(Methods)}

Durations == {1, 2, 3}

(***************************************************************************)
(* Sequences, dicts, arithmetic                                            *)
(***************************************************************************)
Range(s) == {s[i] : i \in 1..Len(s)}

RECURSIVE Sum(_)
Sum(s) == IF s = <<>> THEN 0 ELSE Head(s) + Sum(Tail(s))

SeqMin(s) == CHOOSE x \in Range(s) : \A y \in Range(s) : x <= y

SeqMax(s) == CHOOSE x \in Range(s) : \A y \in Range(s) : x >= y

\* np.mean(s) / sum(s)/len(s) for a non-empty s, as the rational num/den
Mean(s) == [num |-> Sum(s), den |-> Len(s)]

MeanLess(a, b) == a.num * b.den < b.num * a.den

MeanEq(a, b) == a.num * b.den = b.num * a.den

\* s[-n:]
LastN(s, n) == IF Len(s) <= n THEN s ELSE SubSeq(s, Len(s) - n + 1, Len(s))

DictHas(d, k) == \E i \in 1..Len(d) : d[i].k = k

DictGet(d, k) == d[CHOOSE i \in 1..Len(d) : d[i].k = k].v

DictKeys(d) == [i \in 1..Len(d) |-> d[i].k]

\* d[k] = v: an existing key keeps its place, a new key goes last
DictSet(d, k, v) ==
    IF DictHas(d, k)
    THEN [i \in 1..Len(d) |-> IF d[i].k = k THEN [k |-> k, v |-> v] ELSE d[i]]
    ELSE Append(d, [k |-> k, v |-> v])

(***************************************************************************)
(* Timing logs                                                             *)
(***************************************************************************)
NumLine(d) == [kind |-> "num", val |-> d]

BlankLine == [kind |-> "blank", val |-> 0]

BadLine == [kind |-> "bad", val |-> 0]

NoFile == [exists |-> FALSE, lines |-> <<>>]

File(ls) == [exists |-> TRUE, lines |-> ls]

\* float(line.strip())
ParseFloat(line) == [ok |-> line.kind = "num", val |-> line.val]

\* [float(line.strip()) for line in f if line.strip()]: the first line that is
\* not a float raises and the whole read is lost
RECURSIVE ReadTimes(_)
ReadTimes(lines) ==
    IF lines = <<>> THEN [ok |-> TRUE, times |-> <<>>]
    ELSE LET l == Head(lines)
             r == ReadTimes(Tail(lines))
         IN  IF l.kind = "blank" THEN r
             ELSE IF ~ParseFloat(l).ok \/ ~r.ok THEN [ok |-> FALSE, times |-> <<>>]
             ELSE [ok |-> TRUE, times |-> <<ParseFloat(l).val>> \o r.times]

\* advanced parse_timing_logs: the loop over timing_files from entry i on
RECURSIVE AdvParseFrom(_, _, _)
AdvParseFrom(fs, i, timing_data) ==
    IF i > Len(Methods) THEN timing_data
    ELSE LET method == Methods[i]
             r == ReadTimes(fs[method].lines)
         IN  IF fs[method].exists /\ r.ok
             THEN AdvParseFrom(fs, i + 1, DictSet(timing_data, method, r.times))
             ELSE AdvParseFrom(fs, i + 1, timing_data)

AdvParseTimingLogs(fs) == AdvParseFrom(fs, 1, <<>>)

\* simple parse_timing_logs: the loop over methods from entry i on
RECURSIVE SimpleParseFrom(_, _, _)
SimpleParseFrom(fs, i, patch_times) ==
    IF i > Len(Methods) THEN patch_times
    ELSE LET method == Methods[i]
             r == ReadTimes(fs[method].lines)
         IN  IF fs[method].exists /\ r.ok /\ r.times # <<>>
             THEN SimpleParseFrom(fs, i + 1, DictSet(patch_times, method, r.times))
             ELSE SimpleParseFrom(fs, i + 1, patch_times)

SimpleParseTimingLogs(fs, patch_times) == SimpleParseFrom(fs, 1, patch_times)

(***************************************************************************)
(* Metrics sampler                                                         *)
(***************************************************************************)
\* what a shelled-out command answers: a number, nothing, or text that is no
\* number
CmdNum(v) == [kind |-> "num", val |-> v]

CmdEmpty == [kind |-> "empty", val |-> 0]

CmdGarbage == [kind |-> "garbage", val |-> 0]

\* the readings of the host at time t, one value per metric
ReadingAt(t) == [cpu |-> 10 + t, mem |-> 20 + t, disk |-> 30 + t, net |-> 40 + t]

Answers(v) == {CmdNum(v), CmdEmpty, CmdGarbage}

\* every combination of answers of the four commands at time t
AllOutcomes(t) ==
    [cpu : Answers(ReadingAt(t).cpu), mem : Answers(ReadingAt(t).mem),
     disk : Answers(ReadingAt(t).disk), net : Answers(ReadingAt(t).net)]

\* all four commands answer, or the CPU command answers text that is no number
FewOutcomes(t) ==
    {o \in AllOutcomes(t) :
        /\ o.mem.kind = "num" /\ o.disk.kind = "num" /\ o.net.kind = "num"
        /\ o.cpu.kind \in {"num", "garbage"}}

\* all four commands answer
GoodOutcomes(t) == {o \in AllOutcomes(t) : \A f \in DOMAIN o : o[f].kind = "num"}

NoOutcome == [cpu |-> CmdEmpty, mem |-> CmdEmpty, disk |-> CmdEmpty, net |-> CmdEmpty]

\* collect_system_metrics answering a sample of sentinels where it answers None
AdvCollect_SentinelSample(o, t) ==
    [none |-> FALSE,
     timestamp |-> t,
     cpu_usage |-> IF o.cpu.kind = "num" THEN o.cpu.val ELSE 0,
     memory_usage |-> IF o.mem.kind = "num" THEN o.mem.val ELSE 0,
     disk_io |-> IF o.disk.kind = "num" THEN o.disk.val ELSE 0,
     network_io |-> IF o.net.kind = "num" THEN o.net.val ELSE 0]

\* advanced collect_system_metrics: None when the CPU or memory command fails
AdvCollect(o, t) ==
    IF o.cpu.kind # "num" \/ o.mem.kind # "num"
    THEN [none |-> TRUE]
    ELSE [none |-> FALSE,
          timestamp |-> t,
          cpu_usage |-> o.cpu.val,
          memory_usage |-> o.mem.val,
          disk_io |-> IF o.disk.kind = "num" THEN o.disk.val ELSE 0,
          network_io |-> IF o.net.kind = "num" THEN o.net.val ELSE 0]

\* simple collect_system_metrics up to the appends: an empty answer is 0.0,
\* text that is no number raises
SimpleCollect(o) ==
    IF o.cpu.kind = "garbage" \/ o.mem.kind = "garbage"
    THEN [ok |-> FALSE, cpu_usage |-> 0, memory_usage |-> 0]
    ELSE [ok |-> TRUE,
          cpu_usage |-> IF o.cpu.kind = "num" THEN o.cpu.val ELSE 0,
          memory_usage |-> IF o.mem.kind = "num" THEN o.mem.val ELSE 0]

(***************************************************************************)
(* Aggregator and report writer                                            *)
(***************************************************************************)
\* np.mean / np.max / np.min of one series: a zero-size series makes np.max
\* and np.min raise ValueError (and np.mean divide by zero)
NpStats(s) ==
    IF s = <<>> THEN [raised |-> TRUE]
    ELSE [raised |-> FALSE, average |-> Mean(s), max |-> SeqMax(s), min |-> SeqMin(s)]

\* export_report, "System metrics": both series are guarded by cpu_usage alone
AdvSystemSummary(sm) ==
    IF sm.cpu_usage # <<>>
    THEN <<[k |-> "cpu", v |-> NpStats(sm.cpu_usage)],
           [k |-> "memory", v |-> NpStats(sm.memory_usage)]>>
    ELSE <<>>

\* the statistics of one non-empty timing series
TimingStats(times) ==
    [average |-> Mean(times), min |-> SeqMin(times), max |-> SeqMax(times),
     samples |-> Len(times)]

\* export_report / save_report, "Patch performance": the loop over the stored
\* mapping, an entry for each method whose series is not empty
RECURSIVE PatchPerformance(_)
PatchPerformance(pm) ==
    IF pm = <<>> THEN <<>>
    ELSE IF Head(pm).v # <<>>
         THEN <<[k |-> Head(pm).k, v |-> TimingStats(Head(pm).v)]>>
              \o PatchPerformance(Tail(pm))
         ELSE PatchPerformance(Tail(pm))

\* update_summary: avg_times = {m: np.mean(t) for m, t in ... if t}
RECURSIVE AvgTimes(_)
AvgTimes(pm) ==
    IF pm = <<>> THEN <<>>
    ELSE IF Head(pm).v # <<>>
         THEN <<[k |-> Head(pm).k, v |-> Mean(Head(pm).v)]>> \o AvgTimes(Tail(pm))
         ELSE AvgTimes(Tail(pm))

\* min with <= for <: among equal means the last one wins
RECURSIVE PyMinFrom_LastWins(_, _, _)
PyMinFrom_LastWins(keys, i, best) ==
    IF i > Len(keys) THEN best
    ELSE IF ~MeanLess(keys[best], keys[i]) THEN PyMinFrom_LastWins(keys, i + 1, i)
    ELSE PyMinFrom_LastWins(keys, i + 1, best)

\* Python's min(iterable, key=...) over the means `keys` (not empty), from
\* index i on: a later item replaces the best only when strictly smaller
RECURSIVE PyMinFrom(_, _, _)
PyMinFrom(keys, i, best) ==
    IF i > Len(keys) THEN best
    ELSE IF MeanLess(keys[i], keys[best]) THEN PyMinFrom(keys, i + 1, i)
    ELSE PyMinFrom(keys, i + 1, best)

PyMin(keys) == PyMinFrom(keys, 2, 1)

\* export_report, "Generate recommendations"
Recommendations(pp) ==
    IF pp # <<>>
    THEN LET best == PyMin([i \in 1..Len(pp) |-> pp[i].v.average])
         IN  <<[method |-> pp[best].k, avg |-> pp[best].v.average]>>
    ELSE <<>>

\* update_summary, "Best method"
BestMethod(pm) ==
    LET avg_times == AvgTimes(pm)
    IN  IF avg_times # <<>>
        THEN <<avg_times[PyMin([i \in 1..Len(avg_times) |-> avg_times[i].v])].k>>
        ELSE <<>>

\* export_report(filename=None) at time t: the file name, whether building
\* the report raised, and the report
AdvExportReport(sm, pm, t) ==
    LET ss == AdvSystemSummary(sm)
        pp == PatchPerformance(pm)
    IN  [filename |-> <<"analysis_report", t>>,
         raised |-> \E i \in 1..Len(ss) : ss[i].v.raised,
         report |-> [timestamp |-> t,
                     system_metrics_summary |-> ss,
                     patch_performance |-> pp,
                     recommendations |-> Recommendations(pp)]]

\* save_report at time t: each average is guarded by its own series
SimpleSaveReport(d, t) ==
    [filename |-> <<"monitor_report", t>>,
     raised |-> FALSE,
     report |-> [timestamp |-> t,
                 system_metrics |->
                     [samples |-> Len(d.timestamps),
                      cpu_average |-> IF d.cpu_usage # <<>>
                                      THEN Mean(d.cpu_usage) ELSE [num |-> 0, den |-> 1],
                      memory_average |-> IF d.memory_usage # <<>>
                                         THEN Mean(d.memory_usage) ELSE [num |-> 0, den |-> 1]],
                 patch_performance |-> PatchPerformance(d.patch_times)]]

\* open(filename, 'w'); json.dump(report, f)
WriteFile(dk, filename, content) ==
    [n \in DOMAIN dk \cup {filename} |-> IF n = filename THEN content ELSE dk[n]]

(***************************************************************************)
(* Initial states                                                          *)
(***************************************************************************)
EmptyMetrics ==
    [timestamp |-> <<>>, cpu_usage |-> <<>>, memory_usage |-> <<>>,
     disk_io |-> <<>>, network_io |-> <<>>]

EmptyData ==
    [timestamps |-> <<>>, cpu_usage |-> <<>>, memory_usage |-> <<>>,
     patch_times |-> <<>>]

NoFiles == [m \in MethodSet |-> NoFile]

\* the timing logs of the spec's example: quilt 1,2,3; git 3; script empty
ExampleFiles ==
    [m \in MethodSet |->
        IF m = "quilt" THEN File(<<NumLine(1), NumLine(2), NumLine(3)>>)
        ELSE IF m = "git" THEN File(<<NumLine(3)>>)
        ELSE File(<<>>)]

NoCur == [msg |-> <<>>, i |-> 0]

InitHist ==
    [dequeued |-> <<>>, sys_puts |-> 0, collected |-> 0, failures |-> 0,
     sys_after_stop |-> 0, tim_after_stop |-> 0,
     run_writes |-> 0, writes |-> 0, runs |-> 1,
     last_ok |-> [m \in MethodSet |-> [seen |-> FALSE, times |-> <<>>]],
     after_ok |-> [m \in MethodSet |-> <<>>],
     last_read |-> [m \in MethodSet |-> [st |-> "none", times |-> <<>>]]]

\* the state after __init__, before main acts on args.export_only
InitWith(variants, modes, fileChoices) ==
    /\ variant \in variants
    /\ export_only \in modes
    /\ files \in fileChoices
    /\ mpc = "main"
    /\ interrupts = 0
    /\ fig = FALSE
    /\ thread_obj = "absent"
    /\ tpc = "t_unstarted"
    /\ monitoring = TRUE
    /\ data_queue = <<>>
    /\ system_metrics = EmptyMetrics
    /\ patch_metrics = <<>>
    /\ summary = [shown |-> FALSE, best |-> <<>>]
    /\ cur = NoCur
    /\ data = EmptyData
    /\ host = NoOutcome
    /\ now = 0
    /\ disk = <<>>
    /\ report = <<>>
    /\ hist = InitHist

Alive == mpc \notin {"done", "closed", "crashed"}

(***************************************************************************)
(* Advanced variant: main, create_dashboard                                *)
(***************************************************************************)
\* a main that reads the timing logs into patch_metrics before an
\* --export-only report, as the simple variant's main does
A_Main_ParsesLogsFirst ==
    /\ variant = "advanced" /\ mpc = "main"
    /\ mpc' = IF export_only THEN "eo_export" ELSE "cd_fig"
    /\ patch_metrics' = IF export_only THEN AdvParseTimingLogs(files) ELSE patch_metrics
    /\ UNCHANGED <<variant, export_only, interrupts, fig, thread_obj, tpc, monitoring,
                   data_queue, system_metrics, summary, cur, data,
                   files, host, now, disk, report, hist>>

\* main, lines 432-439
A_Main ==
    /\ variant = "advanced" /\ mpc = "main"
    /\ mpc' = IF export_only THEN "eo_export" ELSE "cd_fig"
    /\ UNCHANGED <<variant, export_only, interrupts, fig, thread_obj, tpc, monitoring,
                   data_queue, system_metrics, patch_metrics, summary, cur, data,
                   files, host, now, disk, report, hist>>

\* create_dashboard, lines 143-162: the figure, the axes, init_plots
A_CreateFig ==
    /\ variant = "advanced" /\ mpc = "cd_fig"
    /\ fig' = TRUE
    /\ mpc' = "cd_thread"
    /\ UNCHANGED <<variant, export_only, interrupts, thread_obj, tpc, monitoring,
                   data_queue, system_metrics, patch_metrics, summary, cur, data,
                   files, host, now, disk, report, hist>>

\* create_dashboard, lines 165-166: the Thread object, not yet started
A_CreateThread ==
    /\ variant = "advanced" /\ mpc = "cd_thread"
    /\ thread_obj' = "created"
    /\ mpc' = "cd_start"
    /\ UNCHANGED <<variant, export_only, interrupts, fig, tpc, monitoring,
                   data_queue, system_metrics, patch_metrics, summary, cur, data,
                   files, host, now, disk, report, hist>>

\* create_dashboard, lines 167-173: start the thread, enter plt.show()
A_StartThread ==
    /\ variant = "advanced" /\ mpc = "cd_start"
    /\ thread_obj' = "started"
    /\ tpc' = "t_check"
    /\ mpc' = "show"
    /\ UNCHANGED <<variant, export_only, interrupts, fig, monitoring,
                   data_queue, system_metrics, patch_metrics, summary, cur, data,
                   files, host, now, disk, report, hist>>

\* the animation timer calls update_plots
A_TimerFires ==
    /\ variant = "advanced" /\ mpc = "show"
    /\ mpc' = "up_drain"
    /\ UNCHANGED <<variant, export_only, interrupts, fig, thread_obj, tpc, monitoring,
                   data_queue, system_metrics, patch_metrics, summary, cur, data,
                   files, host, now, disk, report, hist>>

\* the window is closed: plt.show() and main return, the daemon thread dies
\* with the process
A_CloseWindow ==
    /\ variant = "advanced" /\ mpc = "show"
    /\ mpc' = "closed"
    /\ UNCHANGED <<variant, export_only, interrupts, fig, thread_obj, tpc, monitoring,
                   data_queue, system_metrics, patch_metrics, summary, cur, data,
                   files, host, now, disk, report, hist>>

(***************************************************************************)
(* Advanced variant: monitor_thread                                        *)
(***************************************************************************)
\* while self.monitoring (collection goes on up to maxT seconds of clock)
T_Check(maxT) ==
    /\ variant = "advanced" /\ Alive /\ tpc = "t_check"
    /\ monitoring => now < maxT
    /\ tpc' = IF monitoring THEN "t_collect" ELSE "t_done"
    /\ UNCHANGED <<variant, export_only, mpc, interrupts, fig, thread_obj, monitoring,
                   data_queue, system_metrics, patch_metrics, summary, cur, data,
                   files, host, now, disk, report, hist>>

\* a monitor thread that appends its sample to the window itself instead of
\* putting it on the queue
T_Collect_AppendsToWindow(o) ==
    /\ variant = "advanced" /\ Alive /\ tpc = "t_collect"
    /\ LET metrics == AdvCollect(o, now)
       IN  /\ host' = o
           /\ system_metrics' =
                  IF metrics.none THEN system_metrics
                  ELSE [k \in DOMAIN system_metrics |->
                           Append(system_metrics[k], metrics[k])]
           /\ hist' = [hist EXCEPT
                  !.collected = IF metrics.none THEN @ ELSE @ + 1,
                  !.failures = IF metrics.none THEN @ + 1 ELSE @]
    /\ tpc' = "t_parse"
    /\ UNCHANGED <<variant, export_only, mpc, interrupts, fig, thread_obj, monitoring,
                   data_queue, patch_metrics, summary, cur, data,
                   files, now, disk, report>>

\* metrics = self.collect_system_metrics(); if metrics: put(('system', metrics))
T_Collect(o) ==
    /\ variant = "advanced" /\ Alive /\ tpc = "t_collect"
    /\ LET metrics == AdvCollect(o, now)
       IN  /\ host' = o
           /\ data_queue' = IF metrics.none THEN data_queue
                            ELSE Append(data_queue, [type |-> "system", data |-> metrics])
           /\ hist' = [hist EXCEPT
                  !.sys_puts = IF metrics.none THEN @ ELSE @ + 1,
                  !.collected = IF metrics.none THEN @ ELSE @ + 1,
                  !.failures = IF metrics.none THEN @ + 1 ELSE @,
                  !.sys_after_stop = IF ~monitoring /\ ~metrics.none THEN @ + 1 ELSE @]
    /\ tpc' = "t_parse"
    /\ UNCHANGED <<variant, export_only, mpc, interrupts, fig, thread_obj, monitoring,
                   system_metrics, patch_metrics, summary, cur, data,
                   files, now, disk, report>>

\* what one pass over the timing logs leaves in the history: per method the
\* outcome of this read ("absent", "raised" or "ok" with the floats read), the
\* floats of the latest read that succeeded, and the series the mapping
\* `result` of that pass held for the method
ReadHistory(h, fs, result) ==
    [h EXCEPT
        !.last_ok = [m \in MethodSet |->
            IF fs[m].exists /\ ReadTimes(fs[m].lines).ok
            THEN [seen |-> TRUE, times |-> ReadTimes(fs[m].lines).times]
            ELSE @[m]],
        !.after_ok = [m \in MethodSet |->
            IF fs[m].exists /\ ReadTimes(fs[m].lines).ok
            THEN IF DictHas(result, m) THEN DictGet(result, m) ELSE <<>>
            ELSE @[m]],
        !.last_read = [m \in MethodSet |->
            IF ~fs[m].exists THEN [st |-> "absent", times |-> <<>>]
            ELSE IF ~ReadTimes(fs[m].lines).ok THEN [st |-> "raised", times |-> <<>>]
            ELSE [st |-> "ok", times |-> ReadTimes(fs[m].lines).times]]]

\* timing_data = self.parse_timing_logs(); if timing_data: put(('timing', ...))
T_Parse ==
    /\ variant = "advanced" /\ Alive /\ tpc = "t_parse"
    /\ LET timing_data == AdvParseTimingLogs(files)
       IN  /\ data_queue' = IF timing_data = <<>> THEN data_queue
                            ELSE Append(data_queue, [type |-> "timing", data |-> timing_data])
           /\ hist' = [ReadHistory(hist, files, timing_data) EXCEPT
                  !.tim_after_stop = IF ~monitoring /\ timing_data # <<>> THEN @ + 1 ELSE @]
    /\ tpc' = "t_sleep"
    /\ UNCHANGED <<variant, export_only, mpc, interrupts, fig, thread_obj, monitoring,
                   system_metrics, patch_metrics, summary, cur, data,
                   files, host, now, disk, report>>

\* time.sleep(5)
T_Sleep ==
    /\ variant = "advanced" /\ Alive /\ tpc = "t_sleep"
    /\ now' = now + 1
    /\ tpc' = "t_check"
    /\ UNCHANGED <<variant, export_only, mpc, interrupts, fig, thread_obj, monitoring,
                   data_queue, system_metrics, patch_metrics, summary, cur, data,
                   files, host, disk, report, hist>>

(***************************************************************************)
(* Advanced variant: update_plots, update_summary                          *)
(***************************************************************************)
\* a sample whose disk_io never reaches the window
SampleKeys_WithoutDisk == <<"timestamp", "cpu_usage", "memory_usage", "network_io">>

\* the keys of a sample and of self.system_metrics, in dict order
SampleKeys == <<"timestamp", "cpu_usage", "memory_usage", "disk_io", "network_io">>

\* while not self.data_queue.empty(): the test found a message waiting
UP_Test ==
    /\ variant = "advanced" /\ mpc = "up_drain"
    /\ data_queue # <<>>
    /\ mpc' = "up_get"
    /\ UNCHANGED <<variant, export_only, interrupts, fig, thread_obj, tpc, monitoring,
                   data_queue, system_metrics, patch_metrics, summary, cur, data,
                   files, host, now, disk, report, hist>>

\* data_type, data = self.data_queue.get(): Queue.get() blocks while the queue
\* is empty, so the step is taken only on a non-empty queue
UP_Get ==
    /\ variant = "advanced" /\ mpc = "up_get"
    /\ data_queue # <<>>
    /\ LET msg == Head(data_queue)
       IN  /\ cur' = [msg |-> <<msg>>, i |-> 1]
           /\ mpc' = IF msg.type = "system" THEN "up_append" ELSE "up_timing"
           /\ hist' = [hist EXCEPT !.dequeued =
                          IF msg.type = "system" THEN Append(@, msg.data) ELSE @]
    /\ data_queue' = Tail(data_queue)
    /\ UNCHANGED <<variant, export_only, interrupts, fig, thread_obj, tpc, monitoring,
                   system_metrics, patch_metrics, summary, data,
                   files, host, now, disk, report>>

\* for key, value in data.items(): self.system_metrics[key].append(value)
UP_Append ==
    /\ variant = "advanced" /\ mpc = "up_append"
    /\ LET key == SampleKeys[cur.i]
       IN  system_metrics' = [system_metrics EXCEPT
                                 ![key] = Append(@, cur.msg[1].data[key])]
    /\ IF cur.i = Len(SampleKeys)
       THEN mpc' = "up_trim" /\ cur' = [cur EXCEPT !.i = 1]
       ELSE mpc' = mpc /\ cur' = [cur EXCEPT !.i = @ + 1]
    /\ UNCHANGED <<variant, export_only, interrupts, fig, thread_obj, tpc, monitoring,
                   data_queue, patch_metrics, summary, data,
                   files, host, now, disk, report, hist>>

\* the slice taken from the wrong end: series[:100]
TrimSeries_KeepOldest(series) ==
    IF Len(series) > window_capacity THEN SubSeq(series, 1, window_capacity) ELSE series

\* self.system_metrics[key][-100:] when the series is longer than 100
TrimSeries(series) ==
    IF Len(series) > window_capacity THEN LastN(series, window_capacity) ELSE series

\* for key in self.system_metrics: keep only the last 100 points
UP_Trim ==
    /\ variant = "advanced" /\ mpc = "up_trim"
    /\ LET key == SampleKeys[cur.i]
       IN  system_metrics' = [system_metrics EXCEPT ![key] = TrimSeries(@)]
    /\ IF cur.i = Len(SampleKeys)
       THEN mpc' = "up_drain" /\ cur' = NoCur
       ELSE mpc' = mpc /\ cur' = [cur EXCEPT !.i = @ + 1]
    /\ UNCHANGED <<variant, export_only, interrupts, fig, thread_obj, tpc, monitoring,
                   data_queue, patch_metrics, summary, data,
                   files, host, now, disk, report, hist>>

\* for method, times in data.items(): self.patch_metrics[method] = times
UP_Timing ==
    /\ variant = "advanced" /\ mpc = "up_timing"
    /\ LET entry == cur.msg[1].data[cur.i]
       IN  patch_metrics' = DictSet(patch_metrics, entry.k, entry.v)
    /\ IF cur.i = Len(cur.msg[1].data)
       THEN mpc' = "up_drain" /\ cur' = NoCur
       ELSE mpc' = mpc /\ cur' = [cur EXCEPT !.i = @ + 1]
    /\ UNCHANGED <<variant, export_only, interrupts, fig, thread_obj, tpc, monitoring,
                   data_queue, system_metrics, summary, data,
                   files, host, now, disk, report, hist>>

\* update_summary: the system part reads both series under a guard on
\* cpu_usage alone
SummaryRaises(sm) == sm.cpu_usage # <<>> /\ sm.memory_usage = <<>>

\* update_plots once the queue is drained: the plots, then update_summary
UP_Render ==
    /\ variant = "advanced" /\ mpc = "up_drain"
    /\ data_queue = <<>>
    /\ IF SummaryRaises(system_metrics)
       THEN mpc' = "crashed" /\ summary' = summary
       ELSE /\ mpc' = "show"
            /\ summary' = [shown |-> TRUE, best |-> BestMethod(patch_metrics)]
    /\ UNCHANGED <<variant, export_only, interrupts, fig, thread_obj, tpc, monitoring,
                   data_queue, system_metrics, patch_metrics, cur, data,
                   files, host, now, disk, report, hist>>

(***************************************************************************)
(* Interrupts, stop, the report writers                                    *)
(***************************************************************************)
AdvRunning ==
    {"cd_fig", "cd_thread", "cd_start", "show", "up_drain", "up_get", "up_append",
     "up_trim", "up_timing"}

AdvStopping == {"stop_flag", "stop_join", "export", "savefig"}

SimpleRunning == {"s_collect", "s_append", "s_display", "s_sleep"}

SimpleStopping == {"s_save"}

Running == IF variant = "advanced" THEN AdvRunning ELSE SimpleRunning

Stopping == IF variant = "advanced" THEN AdvStopping ELSE SimpleStopping

\* KeyboardInterrupt inside the try block: control goes to the handler
\* (dashboard main, lines 440-442; run_interactive, lines 161-163)
Interrupt ==
    /\ ~export_only /\ mpc \in Running
    /\ interrupts' = interrupts + 1
    /\ mpc' = IF variant = "advanced" THEN "stop_flag" ELSE "s_save"
    /\ UNCHANGED <<variant, export_only, fig, thread_obj, tpc, monitoring,
                   data_queue, system_metrics, patch_metrics, summary, cur, data,
                   files, host, now, disk, report, hist>>

\* KeyboardInterrupt inside the handler: nothing catches it
SecondInterrupt ==
    /\ ~export_only /\ mpc \in Stopping
    /\ interrupts' = interrupts + 1
    /\ mpc' = "crashed"
    /\ UNCHANGED <<variant, export_only, fig, thread_obj, tpc, monitoring,
                   data_queue, system_metrics, patch_metrics, summary, cur, data,
                   files, host, now, disk, report, hist>>

\* stop, line 397
Stop_Flag ==
    /\ variant = "advanced" /\ mpc = "stop_flag"
    /\ monitoring' = FALSE
    /\ mpc' = "stop_join"
    /\ UNCHANGED <<variant, export_only, interrupts, fig, thread_obj, tpc,
                   data_queue, system_metrics, patch_metrics, summary, cur, data,
                   files, host, now, disk, report, hist>>

\* stop without the join: the report is built while the thread may still run
JoinOutcome_NoWait(obj) == IF obj = "created" THEN "raise" ELSE "skip"

\* what stop does at lines 398-399: "skip" without the attribute, "raise"
\* (RuntimeError) on a thread that was never started, else "wait"
JoinOutcome(obj) ==
    IF obj = "absent" THEN "skip"
    ELSE IF obj = "created" THEN "raise"
    ELSE "wait"

\* stop, lines 398-399
Stop_Join ==
    /\ variant = "advanced" /\ mpc = "stop_join"
    /\ JoinOutcome(thread_obj) = "wait" => tpc = "t_done"
    /\ mpc' = IF JoinOutcome(thread_obj) = "raise" THEN "crashed" ELSE "export"
    /\ UNCHANGED <<variant, export_only, interrupts, fig, thread_obj, tpc, monitoring,
                   data_queue, system_metrics, patch_metrics, summary, cur, data,
                   files, host, now, disk, report, hist>>

\* the writer call of the running variant at time t
WriterCall(t) ==
    IF variant = "advanced"
    THEN AdvExportReport(system_metrics, patch_metrics, t)
    ELSE SimpleSaveReport(data, t)

\* export_report() (from stop or with --export-only) and save_report(): build
\* the report, write the file
WriteReport ==
    /\ mpc \in {"eo_export", "export", "s_save"}
    /\ LET r == WriterCall(now)
       IN  IF r.raised
           THEN /\ mpc' = "crashed"
                /\ UNCHANGED <<disk, report, hist>>
           ELSE /\ mpc' = IF mpc = "export" THEN "savefig" ELSE "done"
                /\ disk' = WriteFile(disk, r.filename, r.report)
                /\ report' = <<r.report>>
                /\ hist' = [hist EXCEPT !.run_writes = @ + 1, !.writes = @ + 1]
    /\ UNCHANGED <<variant, export_only, interrupts, fig, thread_obj, tpc, monitoring,
                   data_queue, system_metrics, patch_metrics, summary, cur, data,
                   files, host, now>>

\* stop, lines 405-409, and main's prints
Stop_SaveFig ==
    /\ variant = "advanced" /\ mpc = "savefig"
    /\ mpc' = "done"
    /\ UNCHANGED <<variant, export_only, interrupts, fig, thread_obj, tpc, monitoring,
                   data_queue, system_metrics, patch_metrics, summary, cur, data,
                   files, host, now, disk, report, hist>>

(***************************************************************************)
(* Simple variant                                                          *)
(***************************************************************************)
\* main, lines 185-196
S_Main ==
    /\ variant = "simple" /\ mpc = "main"
    /\ mpc' = IF export_only THEN "s_eo_parse" ELSE "s_collect"
    /\ UNCHANGED <<variant, export_only, interrupts, fig, thread_obj, tpc, monitoring,
                   data_queue, system_metrics, patch_metrics, summary, cur, data,
                   files, host, now, disk, report, hist>>

\* self.parse_timing_logs(): from main with --export-only (line 187)
S_EoParse ==
    /\ variant = "simple" /\ mpc = "s_eo_parse"
    /\ data' = [data EXCEPT !.patch_times = SimpleParseTimingLogs(files, @)]
    /\ hist' = ReadHistory(hist, files, SimpleParseTimingLogs(files, data.patch_times))
    /\ mpc' = "s_collect"
    /\ UNCHANGED <<variant, export_only, interrupts, fig, thread_obj, tpc, monitoring,
                   data_queue, system_metrics, patch_metrics, summary, cur,
                   files, host, now, disk, report>>

\* where control goes after collect_system_metrics returns
AfterCollect == IF export_only THEN "s_save" ELSE "s_display"

\* the three appends of collect_system_metrics, in order
DataKeys == <<"timestamps", "cpu_usage", "memory_usage">>

\* collect_system_metrics, lines 33-43 and 49-51: run the commands; an
\* exception is caught and False returned (the caller ignores it)
S_Collect(o) ==
    /\ variant = "simple" /\ mpc = "s_collect"
    /\ host' = o
    /\ LET r == SimpleCollect(o)
       IN  IF r.ok
           THEN /\ cur' = [msg |-> <<[timestamps |-> now, cpu_usage |-> r.cpu_usage,
                                      memory_usage |-> r.memory_usage]>>,
                           i |-> 1]
                /\ mpc' = "s_append"
                /\ hist' = [hist EXCEPT !.collected = @ + 1]
           ELSE /\ cur' = NoCur
                /\ mpc' = AfterCollect
                /\ hist' = [hist EXCEPT !.failures = @ + 1]
    /\ UNCHANGED <<variant, export_only, interrupts, fig, thread_obj, tpc, monitoring,
                   data_queue, system_metrics, patch_metrics, summary, data,
                   files, now, disk, report>>

\* collect_system_metrics, lines 44-48: one append per step
S_Append ==
    /\ variant = "simple" /\ mpc = "s_append"
    /\ LET key == DataKeys[cur.i]
       IN  data' = [data EXCEPT ![key] = Append(@, cur.msg[1][key])]
    /\ IF cur.i = Len(DataKeys)
       THEN mpc' = AfterCollect /\ cur' = NoCur
       ELSE mpc' = mpc /\ cur' = [cur EXCEPT !.i = @ + 1]
    /\ UNCHANGED <<variant, export_only, interrupts, fig, thread_obj, tpc, monitoring,
                   data_queue, system_metrics, patch_metrics, summary,
                   files, host, now, disk, report, hist>>

\* display_metrics: the averages (each guarded by its own series), then
\* parse_timing_logs
S_Display ==
    /\ variant = "simple" /\ mpc = "s_display"
    /\ data' = [data EXCEPT !.patch_times = SimpleParseTimingLogs(files, @)]
    /\ hist' = ReadHistory(hist, files, SimpleParseTimingLogs(files, data.patch_times))
    /\ mpc' = "s_sleep"
    /\ UNCHANGED <<variant, export_only, interrupts, fig, thread_obj, tpc, monitoring,
                   data_queue, system_metrics, patch_metrics, summary, cur,
                   files, host, now, disk, report>>

\* time.sleep(update_interval), then the next turn of while True
S_Sleep(maxT) ==
    /\ variant = "simple" /\ mpc = "s_sleep"
    /\ now < maxT
    /\ now' = now + 1
    /\ mpc' = "s_collect"
    /\ UNCHANGED <<variant, export_only, interrupts, fig, thread_obj, tpc, monitoring,
                   data_queue, system_metrics, patch_metrics, summary, cur, data,
                   files, host, disk, report, hist>>

(***************************************************************************)
(* The monitor's life: both variants, interrupts at every step             *)
(***************************************************************************)
Init == InitWith({"advanced", "simple"}, BOOLEAN, {NoFiles, ExampleFiles})

Next ==
    \/ A_Main
    \/ A_CreateFig
    \/ A_CreateThread
    \/ A_StartThread
    \/ A_TimerFires
    \/ A_CloseWindow
    \/ T_Check(MaxTicks)
    \/ \E o \in FewOutcomes(now) : T_Collect(o)
    \/ T_Parse
    \/ T_Sleep
    \/ UP_Test
    \/ UP_Get
    \/ UP_Append
    \/ UP_Trim
    \/ UP_Timing
    \/ UP_Render
    \/ Interrupt
    \/ SecondInterrupt
    \/ Stop_Flag
    \/ Stop_Join
    \/ WriteReport
    \/ Stop_SaveFig
    \/ S_Main
    \/ S_EoParse
    \/ \E o \in FewOutcomes(now) : S_Collect(o)
    \/ S_Append
    \/ S_Display
    \/ S_Sleep(MaxTicks)

Spec == Init /\ [][Next]_vars

(***************************************************************************)
(* Properties of the monitor's life (Spec)                                 *)
(***************************************************************************)
Terminated == mpc \in {"done", "closed", "crashed"}

AtWriter == mpc \in {"eo_export", "export", "s_save"}

\* C1, for the runs in which one interrupt arrives (the claim also covers a
\* second interrupt while stopping): once the monitor is Running, a run that
\* was interrupted terminates only after exactly one final report file was
\* written.
C1_InterruptYieldsFinalReport ==
    (~export_only /\ interrupts = 1 /\ Terminated) => hist.run_writes = 1

\* the timestamps of the samples that were put on the queue
TimestampsEnqueued ==
    {data_queue[i].data.timestamp :
        i \in {j \in 1..Len(data_queue) : data_queue[j].type = "system"}}
    \cup {hist.dequeued[i].timestamp : i \in 1..Len(hist.dequeued)}

\* C3: after stop() has set monitoring to False the monitor thread puts at
\* most one further 'system' and one further 'timing' message, and the main
\* thread is in or past export_report only when the thread has terminated (or
\* was never created).
C3_JoinBeforeFinalReport ==
    /\ hist.sys_after_stop <= 1
    /\ hist.tim_after_stop <= 1
    /\ (variant = "advanced" /\ ~export_only /\ mpc \in {"export", "savefig", "done"})
           => tpc \in {"t_unstarted", "t_done"}

\* C3's case: the flag fell during a collection cycle, the thread finished
\* that cycle (one more put of each kind), was joined, and the report is built
C3_Witness ==
    /\ mpc = "savefig" /\ tpc = "t_done"
    /\ hist.sys_after_stop = 1 /\ hist.tim_after_stop = 1
    /\ report # <<>>

\* C6: whenever a report is about to be built, building it does not raise and
\* takes no mean, min or max of an empty series: every method in
\* patch_performance has a non-empty stored series, and in the advanced
\* variant a summary is computed only over non-empty series.
C6_ReportNeverRaises ==
    AtWriter =>
        LET r == WriterCall(now)
            stored == IF variant = "advanced" THEN patch_metrics ELSE data.patch_times
        IN  /\ ~r.raised
            /\ \A i \in 1..Len(r.report.patch_performance) :
                   DictGet(stored, r.report.patch_performance[i].k) # <<>>

\* C9: a tick whose collection fails as a whole (advanced: the CPU or memory
\* command gives no number; simple: one of them gives text that is no number)
\* leaves no sample of that tick in the queue or the window, does not end the
\* process, and does not end the polling loop: the thread ends only after the
\* flag fell, the simple loop only by an interrupt.
C9_FailedTickSkipped ==
    /\ (variant = "advanced" /\ tpc \in {"t_parse", "t_sleep"}
            /\ (host.cpu.kind # "num" \/ host.mem.kind # "num"))
           => now \notin TimestampsEnqueued
    /\ (variant = "advanced" /\ tpc = "t_done") => ~monitoring
    /\ (variant = "simple" /\ mpc \in {"s_display", "s_sleep", "s_save"}
            /\ (host.cpu.kind = "garbage" \/ host.mem.kind = "garbage"))
           => /\ now \notin Range(data.timestamps)
              /\ Len(data.cpu_usage) = Len(data.timestamps)
              /\ Len(data.memory_usage) = Len(data.timestamps)
    /\ (variant = "simple" /\ mpc = "crashed") => interrupts = 2
    /\ (variant = "simple" /\ ~export_only /\ Terminated) => interrupts >= 1

\* C9's case: an earlier tick failed as a whole, and the sample of a later
\* tick is on the queue
C9_Witness ==
    /\ variant = "advanced" /\ tpc = "t_parse"
    /\ hist.failures >= 1
    /\ host.cpu.kind = "num"
    /\ now \in TimestampsEnqueued

(***************************************************************************)
(* The sample window (SpecWindow): the advanced variant left running for   *)
(* more than window_capacity ticks, no timing logs, every command          *)
(* answering; the consumer lets at most MaxQueue messages wait             *)
(***************************************************************************)
InitWindow == InitWith({"advanced"}, {FALSE}, {NoFiles})

NextWindow ==
    \/ A_Main
    \/ A_CreateFig
    \/ A_CreateThread
    \/ A_StartThread
    \/ A_TimerFires
    \/ (Len(data_queue) < MaxQueue /\ T_Check(WindowTicks))
    \/ \E o \in GoodOutcomes(now) : T_Collect(o)
    \/ T_Parse
    \/ T_Sleep
    \/ UP_Test
    \/ UP_Get
    \/ UP_Append
    \/ UP_Trim
    \/ UP_Render

SpecWindow == InitWindow /\ [][NextWindow]_vars

\* update_plots is not in the middle of a message
BetweenMessages == variant = "advanced" /\ mpc \in {"show", "up_drain"}

\* the last min(n, cap) entries of field key of the n samples dequeued so far
LatestDequeued(key, cap) ==
    LET n == Len(hist.dequeued)
        k == IF n < cap THEN n ELSE cap
    IN  [i \in 1..k |-> hist.dequeued[n - k + i][key]]

\* C2: whenever update_plots has finished with a 'system' message, every
\* series of system_metrics holds at most 100 entries, and they are the most
\* recent min(n, 100) of the n samples dequeued so far, in collection order.
C2_WindowKeepsLatest ==
    BetweenMessages =>
        \A key \in Range(SampleKeys) :
            /\ Len(system_metrics[key]) <= window_capacity
            /\ system_metrics[key] = LatestDequeued(key, window_capacity)

\* C2's case: more than 100 samples were dequeued, so the oldest were evicted
C2_Witness ==
    /\ mpc = "show"
    /\ Len(hist.dequeued) > window_capacity
    /\ Len(system_metrics.cpu_usage) = window_capacity
    /\ system_metrics.timestamp[1] = Len(hist.dequeued) - window_capacity

(***************************************************************************)
(* The aggregator (SpecReport): the advanced variant at the end of a drain *)
(* with any stored timing mapping of at most MaxSamples durations in all;  *)
(* the summary is rendered, an interrupt stops the monitor, the report is  *)
(* written                                                                 *)
(***************************************************************************)
SeriesOfLen(n) == [1..n -> Durations]

\* the orders in which methods can have entered the mapping
KeyOrders ==
    {<<>>}
    \cup {<<a>> : a \in MethodSet}
    \cup {o \in MethodSet \X MethodSet : o[1] # o[2]}
    \cup {o \in MethodSet \X MethodSet \X MethodSet :
              o[1] # o[2] /\ o[1] # o[3] /\ o[2] # o[3]}

InitReport ==
    /\ variant = "advanced"
    /\ export_only = FALSE
    /\ files = NoFiles
    /\ mpc = "up_drain"
    /\ interrupts = 0
    /\ fig = TRUE
    /\ thread_obj = "started"
    /\ tpc = "t_check"
    /\ monitoring = TRUE
    /\ data_queue = <<>>
    /\ system_metrics = EmptyMetrics
    /\ \E order \in KeyOrders :
         \E lens \in [MethodSet -> 0..MaxSamples] :
            /\ lens["quilt"] + lens["git"] + lens["script"] <= MaxSamples
            /\ \A m \in MethodSet : m \notin Range(order) => lens[m] = 0
            /\ \E q \in SeriesOfLen(lens["quilt"]) :
                 \E g \in SeriesOfLen(lens["git"]) :
                    \E c \in SeriesOfLen(lens["script"]) :
                       patch_metrics =
                           [i \in 1..Len(order) |->
                               [k |-> order[i],
                                v |-> IF order[i] = "quilt" THEN q
                                      ELSE IF order[i] = "git" THEN g ELSE c]]
    /\ summary = [shown |-> FALSE, best |-> <<>>]
    /\ cur = NoCur
    /\ data = EmptyData
    /\ host = NoOutcome
    /\ now = MaxTicks
    /\ disk = <<>>
    /\ report = <<>>
    /\ hist = InitHist

NextReport ==
    \/ UP_Render
    \/ Interrupt
    \/ Stop_Flag
    \/ T_Check(MaxTicks)
    \/ Stop_Join
    \/ WriteReport
    \/ Stop_SaveFig

SpecReport == InitReport /\ [][NextReport]_vars

\* the entries of the mapping whose series is not empty
NonEmptyIdx(pm) == {i \in 1..Len(pm) : pm[i].v # <<>>}

\* m has a non-empty series, no non-empty series has a smaller mean, and
\* every earlier non-empty series has a greater mean
IsFirstBest(pm, m) ==
    \E b \in NonEmptyIdx(pm) :
        /\ pm[b].k = m
        /\ \A j \in NonEmptyIdx(pm) :
               /\ ~MeanLess(Mean(pm[j].v), Mean(pm[b].v))
               /\ j < b => MeanLess(Mean(pm[b].v), Mean(pm[j].v))

BestAgrees(pm, named) ==
    IF NonEmptyIdx(pm) = {} THEN named = <<>>
    ELSE Len(named) = 1 /\ IsFirstBest(pm, named[1])

\* C7: the method the report recommends and the method the summary names as
\* best is a method with a non-empty series whose mean is minimal among the
\* non-empty series, the first such in the mapping's order; when no method
\* has a sample there is no recommendation and no best method.
C7_BestIsFirstMinimalMean ==
    /\ (variant = "advanced" /\ report # <<>>) =>
           BestAgrees(patch_metrics,
                      [i \in 1..Len(report[1].recommendations) |->
                          report[1].recommendations[i].method])
    /\ summary.shown => BestAgrees(patch_metrics, summary.best)

\* C7's case, the spec's example: quilt 1,2,3 (mean 2), git slower, script
\* without a sample; summary and report name quilt
C7_Witness ==
    /\ patch_metrics = <<[k |-> "quilt", v |-> <<1, 2, 3>>],
                         [k |-> "git", v |-> <<3>>],
                         [k |-> "script", v |-> <<>>]>>
    /\ summary.shown /\ summary.best = <<"quilt">>
    /\ report # <<>>
    /\ Len(report[1].recommendations) = 1
    /\ report[1].recommendations[1].method = "quilt"
    /\ ~DictHas(report[1].patch_performance, "script")

(***************************************************************************)
(* The timing logs (SpecTiming): both variants polling while the benchmark *)
(* tool rewrites the quilt and git logs between two reads; the CPU command *)
(* of this host answers text that is no number, so no sample is collected  *)
(***************************************************************************)
\* what a timing log can hold when it is read: no file, an empty file, two
\* floats, two floats and a line that is no float, a float and a blank line
LogChoices ==
    {NoFile,
     File(<<>>),
     File(<<NumLine(1), NumLine(2)>>),
     File(<<NumLine(1), NumLine(2), BadLine>>),
     File(<<NumLine(2), BlankLine>>)}

\* the results directory as the benchmark tool can leave it
LogSnapshots ==
    {fs \in [MethodSet -> LogChoices] : fs["script"] = NoFile}

\* the CPU command answers text that is no number, the others answer
BadCpuOutcomes(t) ==
    {o \in AllOutcomes(t) :
        /\ o.cpu.kind = "garbage"
        /\ o.mem.kind = "num" /\ o.disk.kind = "num" /\ o.net.kind = "num"}

\* the variant is about to read the timing logs
AboutToParse ==
    IF variant = "advanced" THEN tpc = "t_parse" /\ Alive ELSE mpc = "s_display"

\* the benchmark tool has rewritten the logs since the last read
EnvRewrite(fs) ==
    /\ AboutToParse
    /\ fs # files
    /\ files' = fs
    /\ UNCHANGED <<variant, export_only, mpc, interrupts, fig, thread_obj, tpc,
                   monitoring, data_queue, system_metrics, patch_metrics, summary,
                   cur, data, host, now, disk, report, hist>>

InitTiming == InitWith({"advanced", "simple"}, {FALSE}, {NoFiles})

NextTiming ==
    \/ A_Main
    \/ A_CreateFig
    \/ A_CreateThread
    \/ A_StartThread
    \/ A_TimerFires
    \/ T_Check(MaxTicks)
    \/ \E o \in BadCpuOutcomes(now) : T_Collect(o)
    \/ T_Parse
    \/ T_Sleep
    \/ UP_Test
    \/ UP_Get
    \/ UP_Timing
    \/ UP_Render
    \/ S_Main
    \/ \E o \in BadCpuOutcomes(now) : S_Collect(o)
    \/ S_Display
    \/ S_Sleep(MaxTicks)
    \/ \E fs \in LogSnapshots : EnvRewrite(fs)

SpecTiming == InitTiming /\ [][NextTiming]_vars

\* the stored series of method m (both mappings are defaultdict(list))
StoredSeries(m) ==
    LET d == IF variant = "advanced" THEN patch_metrics ELSE data.patch_times
    IN  IF DictHas(d, m) THEN DictGet(d, m) ELSE <<>>

\* every read of the logs made so far has reached the stored mapping: in the
\* advanced variant no 'timing' message waits or is in hand, in the simple
\* variant parse_timing_logs has returned
TimingApplied ==
    IF variant = "advanced"
    THEN /\ mpc \in {"show", "up_drain"}
         /\ \A i \in 1..Len(data_queue) : data_queue[i].type # "timing"
    ELSE mpc = "s_sleep"

\* C4: when the latest read of a method's log raised on a line that is no
\* float, after an earlier read of it had succeeded, the process goes on, the
\* stored series of that method is as the last successful read left it, and
\* every other method whose log was read successfully on that tick has
\* exactly the floats read.
C4_BadLineKeepsStaleUpdatesOthers ==
    TimingApplied =>
        \A m \in MethodSet :
            (hist.last_read[m].st = "raised" /\ hist.last_ok[m].seen) =>
                /\ mpc # "crashed"
                /\ StoredSeries(m) = hist.after_ok[m]
                /\ \A o \in MethodSet \ {m} :
                       hist.last_read[o].st = "ok" =>
                           StoredSeries(o) = hist.last_read[o].times

\* C5: after every read of a method's log that succeeded, the stored series
\* of that method is exactly the floats read, an empty file included.
C5_StoredEqualsFile ==
    TimingApplied =>
        \A m \in MethodSet :
            hist.last_read[m].st = "ok" => StoredSeries(m) = hist.last_read[m].times


(***************************************************************************)
(* The sampler (SpecCollect): both variants collecting on a host whose     *)
(* four commands each answer a number, nothing, or text that is no number  *)
(***************************************************************************)
InitCollect == InitWith({"advanced", "simple"}, {FALSE}, {NoFiles})

NextCollect ==
    \/ A_Main
    \/ A_CreateFig
    \/ A_CreateThread
    \/ A_StartThread
    \/ T_Check(MaxTicks)
    \/ \E o \in AllOutcomes(now) : T_Collect(o)
    \/ T_Parse
    \/ T_Sleep
    \/ S_Main
    \/ \E o \in AllOutcomes(now) : S_Collect(o)
    \/ S_Append
    \/ S_Display
    \/ S_Sleep(MaxTicks)

SpecCollect == InitCollect /\ [][NextCollect]_vars

\* what the Sample must hold for a metric: the number the command answered,
\* or the sentinel 0.0 when it answered none
Expected(answer) == IF answer.kind = "num" THEN answer.val ELSE 0

\* the samples of time t that were put on the queue
SamplesOfTick(t) ==
    {data_queue[i].data :
        i \in {j \in 1..Len(data_queue) :
                  data_queue[j].type = "system" /\ data_queue[j].data.timestamp = t}}
    \cup {hist.dequeued[i] :
            i \in {j \in 1..Len(hist.dequeued) : hist.dequeued[j].timestamp = t}}

\* C8: when collect_system_metrics has returned on a tick, the tick's Sample
\* exists and holds, for every metric, the value its command answered, or
\* 0.0 when that command failed, whichever subset of the commands failed.
C8_MetricsIndependent ==
    /\ (variant = "advanced" /\ tpc \in {"t_parse", "t_sleep"}) =>
           \E smp \in SamplesOfTick(now) :
               /\ smp.cpu_usage = Expected(host.cpu)
               /\ smp.memory_usage = Expected(host.mem)
               /\ smp.disk_io = Expected(host.disk)
               /\ smp.network_io = Expected(host.net)
    /\ (variant = "simple" /\ mpc \in {"s_display", "s_sleep"}) =>
           /\ data.timestamps # <<>>
           /\ data.timestamps[Len(data.timestamps)] = now
           /\ Len(data.cpu_usage) = Len(data.timestamps)
           /\ Len(data.memory_usage) = Len(data.timestamps)
           /\ data.cpu_usage[Len(data.cpu_usage)] = Expected(host.cpu)
           /\ data.memory_usage[Len(data.memory_usage)] = Expected(host.mem)

(***************************************************************************)
(* The report writer (SpecWriter): --export-only runs of either variant,   *)
(* one after the other on the same results directory, the clock going on   *)
(* between them or not                                                     *)
(***************************************************************************)
\* the wall clock passes a second boundary
ClockTick ==
    /\ now < MaxClock
    /\ now' = now + 1
    /\ UNCHANGED <<variant, export_only, mpc, interrupts, fig, thread_obj, tpc,
                   monitoring, data_queue, system_metrics, patch_metrics, summary,
                   cur, data, files, host, disk, report, hist>>

\* the process has ended and the program is run again on the same directory
Restart ==
    /\ mpc = "done"
    /\ hist.runs < MaxRuns
    /\ variant' \in {"advanced", "simple"}
    /\ mpc' = "main"
    /\ interrupts' = 0
    /\ fig' = FALSE
    /\ thread_obj' = "absent"
    /\ tpc' = "t_unstarted"
    /\ monitoring' = TRUE
    /\ data_queue' = <<>>
    /\ system_metrics' = EmptyMetrics
    /\ patch_metrics' = <<>>
    /\ summary' = [shown |-> FALSE, best |-> <<>>]
    /\ cur' = NoCur
    /\ data' = EmptyData
    /\ host' = NoOutcome
    /\ report' = <<>>
    /\ hist' = [InitHist EXCEPT !.runs = hist.runs + 1, !.writes = hist.writes]
    /\ UNCHANGED <<export_only, files, now, disk>>

InitWriter == InitWith({"advanced", "simple"}, {TRUE}, {NoFiles, ExampleFiles})

NextWriter ==
    \/ A_Main
    \/ S_Main
    \/ S_EoParse
    \/ \E o \in FewOutcomes(now) : S_Collect(o)
    \/ S_Append
    \/ WriteReport
    \/ ClockTick
    \/ Restart

SpecWriter == InitWriter /\ [][NextWriter]_vars

\* C10: every call of the report writer made a new file: the results
\* directory holds as many report files as writer calls have been made, also
\* when two calls fall into the same clock second.
C10_WriterNeverOverwrites == Cardinality(DOMAIN disk) = hist.writes

(***************************************************************************)
(* Shutdown and the queue (Spec)                                           *)
(***************************************************************************)
\* the main thread of the advanced variant is in or past export_report on the
\* way out of stop()
FinalReportBuilt ==
    variant = "advanced" /\ ~export_only /\ mpc \in {"export", "savefig", "done"}

\* C11: when stop() builds the final report, the queue is empty and no
\* message is half applied: every message the monitor thread put before it
\* terminated has reached system_metrics / patch_metrics.
C11_QueueDrainedBeforeReport ==
    FinalReportBuilt => (data_queue = <<>> /\ cur = NoCur)

(***************************************************************************)
(* The two threads and the queue (Spec)                                    *)
(***************************************************************************)
\* a step of the monitor thread: its position changes after it was started
ThreadStep == tpc # "t_unstarted" /\ tpc' # tpc

\* q2 is q1 with one message put at the end
IsPut(q1, q2) == Len(q2) = Len(q1) + 1 /\ SubSeq(q2, 1, Len(q1)) = q1

\* the monitor thread writes nothing but the queue, and only by a put; the
\* main thread changes the queue only by taking its head
OnlyQueueShared ==
    variant = "advanced" =>
        IF ThreadStep
        THEN /\ UNCHANGED <<system_metrics, patch_metrics, summary, cur>>
             /\ (data_queue' = data_queue \/ IsPut(data_queue, data_queue'))
        ELSE \/ data_queue' = data_queue
             \/ (mpc = "up_get" /\ data_queue # <<>> /\ data_queue' = Tail(data_queue))

\* the get() of the drain loop finds a message
GetFindsMessage == (variant = "advanced" /\ mpc = "up_get") => data_queue # <<>>

\* C12: under every interleaving the monitor thread only puts onto data_queue
\* and leaves system_metrics and patch_metrics alone, the main thread is the
\* only one to take from the queue, and every get() of the drain loop runs on
\* a non-empty queue, so it never blocks. (The boolean monitoring flag is the
\* shutdown signal: written by stop(), read by the thread's loop test.)
C12_OnlyQueueSharedGetNeverBlocks ==
    []GetFindsMessage /\ [][OnlyQueueShared]_vars

\* C12's case: the drain loop is about to get() with two messages waiting
\* while the thread is in the middle of a cycle, after an earlier sample was
\* already taken by the main thread
C12_Witness ==
    /\ variant = "advanced" /\ mpc = "up_get"
    /\ Len(data_queue) >= 2
    /\ tpc = "t_sleep"
    /\ system_metrics.cpu_usage # <<>>

(***************************************************************************)
(* --export-only in the advanced variant (Spec)                            *)
(***************************************************************************)
AdvExportOnly == variant = "advanced" /\ export_only

\* nothing was collected, parsed or queued, and no thread exists
NothingMonitored ==
    /\ thread_obj = "absent" /\ tpc = "t_unstarted"
    /\ data_queue = <<>>
    /\ hist.collected = 0 /\ hist.failures = 0 /\ hist.sys_puts = 0
    /\ \A m \in MethodSet : hist.last_read[m].st = "none"

\* C13: an --export-only run of the advanced variant starts no thread, calls
\* neither collect_system_metrics nor parse_timing_logs and leaves the queue
\* empty; it always has its next step until it is done, is done only with
\* exactly one report written, and that report's system_metrics_summary,
\* patch_performance and recommendations are empty whatever the timing logs
\* hold.
C13_ExportOnlyWritesOneEmptyReport ==
    AdvExportOnly =>
        /\ NothingMonitored
        /\ mpc \in {"main", "eo_export", "done"}
        /\ mpc = "main" => ENABLED A_Main
        /\ mpc = "eo_export" => (ENABLED WriteReport /\ ~WriterCall(now).raised)
        /\ hist.run_writes = (IF mpc = "done" THEN 1 ELSE 0)
        /\ mpc = "done" =>
               /\ Cardinality(DOMAIN disk) = 1
               /\ Len(report) = 1
               /\ report[1].system_metrics_summary = <<>>
               /\ report[1].patch_performance = <<>>
               /\ report[1].recommendations = <<>>

\* C13's case: the run is done with its one report although the results
\* directory holds timing logs with samples
C13_Witness ==
    /\ AdvExportOnly /\ mpc = "done"
    /\ files = ExampleFiles
    /\ hist.run_writes = 1
    /\ report # <<>> /\ report[1].patch_performance = <<>>

(***************************************************************************)
(* The series stay aligned (Spec)                                          *)
(***************************************************************************)
\* the five series of the window have one length, and the entries at each
\* index are the fields of one sample that was taken from the queue
WindowAligned ==
    /\ \A key \in DOMAIN system_metrics :
           Len(system_metrics[key]) = Len(system_metrics.timestamp)
    /\ \A i \in 1..Len(system_metrics.timestamp) :
           \E j \in 1..Len(hist.dequeued) :
               \A key \in DOMAIN system_metrics :
                   system_metrics[key][i] = hist.dequeued[j][key]

\* collect_system_metrics of the simple variant has returned: the loop is at
\* display, sleep or the next call, or --export-only goes on to save_report
SimpleCollectReturned ==
    /\ variant = "simple"
    /\ \/ mpc \in {"s_display", "s_sleep"}
       \/ (mpc = "s_collect" /\ hist.collected + hist.failures > 0)
       \/ (export_only /\ mpc \in {"s_save", "done"})

\* C14: whenever update_plots has finished with a queued message the five
\* series of system_metrics have the same length and hold, index by index,
\* the fields of one Sample; whenever collect_system_metrics of the simple
\* variant has returned, with a sample or with a failure, timestamps,
\* cpu_usage and memory_usage have the same length.
C14_SeriesAligned ==
    /\ BetweenMessages => WindowAligned
    /\ SimpleCollectReturned =>
           /\ Len(data.cpu_usage) = Len(data.timestamps)
           /\ Len(data.memory_usage) = Len(data.timestamps)

\* C14's case: the samples of two ticks went through update_plots
C14_Witness ==
    /\ variant = "advanced" /\ mpc = "show"
    /\ system_metrics.timestamp = <<0, 1>>
    /\ system_metrics.cpu_usage = <<ReadingAt(0).cpu, ReadingAt(1).cpu>>
    /\ system_metrics.network_io = <<ReadingAt(0).net, ReadingAt(1).net>>

====
